---- MODULE Spec2Model ----
(***************************************************************************)
(* A model of the node-network logic of the RigTools Maya scripts.         *)
(*                                                                         *)
(* Each tool is a flat script over the host's scene; every tool has its    *)
(* own specification over its own part of the scene:                       *)
(*   SpecIK       IKFollowSystem.py        (addIKFollowSystem)             *)
(*   SpecProp     PropFollowTool.py        (setup_prop_follow)             *)
(*   SpecStretch  StretchSystemTool.py     (create_stretch_ik_chain, ...)  *)
(*   SpecAnim     kfAnimTransfer.py        (kfAT_Obj, kfAT_Hier)           *)
(*                                                                         *)
(* Node names are sequences of one-character strings, so that the string   *)
(* operations of the scripts (lower, split, replace, in) are computed; in  *)
(* the stretch tool, which only concatenates, they are sequences of pieces.*)
(* Host nodes the scripts create and wire (condition, multDoubleLinear,    *)
(* multiplyDivide, blendColors) are evaluated as Maya documents them.      *)
(***************************************************************************)
EXTENDS Integers, Sequences, FiniteSets, TLC

VARIABLES
    \* ---- IKFollowSystem.py
    ikObjs,        \* names of the transforms that exist in the scene
    ikGrouped,     \* TRUE iff the IK control has a parent transform
    ikAttr,        \* ik_ctrl.FollowTarget: [exists, value]
    pcon,          \* the parent constraint on the IK control's group
    ikNodes,       \* [cond, mdl]: number of condition / multDoubleLinear nodes
    ikCalls,       \* number of addIKFollowSystem calls that got past validation
    ikLast         \* outcome of the last addIKFollowSystem call, and its arguments
                   \* when it succeeded

ikVars == <<ikObjs, ikGrouped, ikAttr, pcon, ikNodes, ikCalls, ikLast>>

VARIABLES
    \* ---- PropFollowTool.py
    propObjs,      \* names of the transforms that exist in the scene
    propParentOf,  \* parent of each transform (None: child of the world)
    propPos,       \* world position of each transform (one axis)
    followHand,    \* prop.followHand: [exists, value]
    bufCon,        \* the parent constraint on the buffer group
    propConds,     \* number of condition nodes created
    scriptJobs,    \* the registered attributeChange jobs, in order
    propCalls,     \* number of setup_prop_follow calls that got past validation
    propLast       \* outcome of the last setup_prop_follow call

propVars == <<propObjs, propParentOf, propPos, followHand, bufCon, propConds,
              scriptJobs, propCalls, propLast>>

VARIABLES
    \* ---- StretchSystemTool.py
    inMaya,        \* IN_MAYA: maya.cmds could be imported
    segLen,        \* <<len1, len2>>: rest lengths of the two segments of the chain
    stObjs,        \* names of the nodes that exist in the scene
    stType,        \* node type of each node
    stParent,      \* parent of each DAG node (None: child of the world)
    stAttrs,       \* attributes added with addAttr: plugs <<node, attr>>
    stVal,         \* values given with setAttr: plug -> rational <<num, den>>
    stMeta,        \* string attributes given with setAttr(type='string')
    stConn,        \* connections <<source plug, destination plug>>
    stPointCons,   \* locator -> the targets of its point constraint
    stDist,        \* distanceBetween node -> the distance it measures now
    stCalls,       \* number of create_stretch_ik_chain runs
    stLast         \* the last call: operation, arguments, outcome, what it issued

stVars == <<inMaya, segLen, stObjs, stType, stParent, stAttrs, stVal, stMeta,
            stConn, stPointCons, stDist, stCalls, stLast>>

VARIABLES
    \* ---- kfAnimTransfer.py
    anObjs,        \* names of the objects that exist in the scene
    anParent,      \* parent of each object (None: child of the world)
    anSel,         \* the selection, in selection order
    anKeys,        \* object -> the animation it carries (0: no keys)
    anClip,        \* the key clipboard (0: empty)
    anStrict,      \* TRUE iff the host's pasteKey raises on an empty clipboard
    anLast         \* the last handler run: what it was given, did and printed

anVars == <<anObjs, anParent, anSel, anKeys, anClip, anStrict, anLast>>

VARIABLES
    \* ---- ConstrainTool.py
    ctSel,         \* the selection, in selection order
    ctLocked,      \* transforms whose channels are locked: constraining them fails
    ctCons,        \* the constraint nodes: [type, on, targets]
    ctCalls,       \* number of constraint-button clicks so far
    ctLast         \* the last button click: what it was given, did and warned

ctVars == <<ctSel, ctLocked, ctCons, ctCalls, ctLast>>

VARIABLES
    \* ---- SplineTool.py
    joint_chain,   \* the joints handed to attach_ctrls_to_curve, top-down
    spCurve,       \* the curve argument: "ok", "missing" or "noShape"
    spans,         \* curveShape.spans
    spRefused,     \* joints on which the host refuses a parentConstraint
    spPoci,        \* the pointOnCurveInfo nodes, in creation order
    spCtrls,       \* the controls: [joint, grp]
    spGrps,        \* the control groups: [joint, parent, translateFrom]
    spParentGrps,  \* number of '<curve>_ctrls_GRP' groups
    spCons,        \* the constraints that drive the joints: [type, on, target]
    spCalls,       \* number of attach_ctrls_to_curve calls
    spLast         \* the last call: what it returned or raised

spVars == <<joint_chain, spCurve, spans, spRefused, spPoci, spCtrls, spGrps,
            spParentGrps, spCons, spCalls, spLast>>

vars == <<ikVars, propVars, stVars, anVars, ctVars, spVars>>

-----------------------------------------------------------------------------
(* Bounds *)

\* addIKFollowSystem calls explored per behaviour
MaxIKCalls == 1

\* setup_prop_follow calls explored per behaviour
MaxPropCalls == 2

\* world positions are 0..MaxPos
MaxPos == 1

\* create_stretch_ik_chain runs explored per behaviour
MaxStretchCalls == 1

\* rest length of one segment of the joint chain is 1..MaxSegLen
MaxSegLen == 1

\* the measured distance between the locators is 0..MaxDist
MaxDist == 3

\* at most MaxSel objects are selected
MaxSel == 3

\* at most MaxCtCalls clicks on the three constraint buttons
MaxCtCalls == 2

\* a joint chain has at most MaxChain joints, a curve at most MaxSpans spans,
\* and attach_ctrls_to_curve is called at most MaxAttachCalls times
MaxChain == 4
MaxSpans == 3
MaxAttachCalls == 1

-----------------------------------------------------------------------------
(* Strings *)

None == <<>>

UpperChars == <<"A","B","C","D","E","F","G","H","I","J","K","L","M",
                "N","O","P","Q","R","S","T","U","V","W","X","Y","Z">>
LowerChars == <<"a","b","c","d","e","f","g","h","i","j","k","l","m",
                "n","o","p","q","r","s","t","u","v","w","x","y","z">>

\* str.lower(), one character
LowerChar(ch) ==
    IF \E k \in DOMAIN UpperChars : UpperChars[k] = ch
    THEN LowerChars[CHOOSE k \in DOMAIN UpperChars : UpperChars[k] = ch]
    ELSE ch

Lower(s) == [k \in DOMAIN s |-> LowerChar(s[k])]

\* s.split(ch)[-1]: the part of s after the last ch (all of s when no ch)
SplitLast(s, ch) ==
    IF \E k \in DOMAIN s : s[k] = ch
    THEN SubSeq(s, (CHOOSE k \in DOMAIN s :
                      s[k] = ch /\ \A j \in (k + 1)..Len(s) : s[j] # ch) + 1, Len(s))
    ELSE s

\* s.replace(old, new): every non-overlapping occurrence, left to right; an
\* empty old matches before every character and at the end
RECURSIVE PyReplace(_, _, _)
PyReplace(s, old, new) ==
    IF old = <<>>
    THEN IF s = <<>> THEN new
         ELSE new \o <<Head(s)>> \o PyReplace(Tail(s), old, new)
    ELSE IF Len(s) < Len(old) THEN s
    ELSE IF SubSeq(s, 1, Len(old)) = old
         THEN new \o PyReplace(SubSeq(s, Len(old) + 1, Len(s)), old, new)
         ELSE <<Head(s)>> \o PyReplace(Tail(s), old, new)

\* `sub in s`
Contains(sub, s) ==
    \E k \in 0..(Len(s) - Len(sub)) :
        \A j \in 1..Len(sub) : s[k + j] = sub[j]

\* s.split(ch)[0]: the part of s before the first ch (all of s when no ch)
SplitFirst(s, ch) ==
    IF \E k \in DOMAIN s : s[k] = ch
    THEN SubSeq(s, 1, (CHOOSE k \in DOMAIN s :
                          s[k] = ch /\ \A j \in 1..(k - 1) : s[j] # ch) - 1)
    ELSE s

\* Override with the old value kept where there is one
Override_KeepsOld(f, g) ==
    [x \in (DOMAIN f) \cup (DOMAIN g) |-> IF x \in DOMAIN g THEN g[x] ELSE f[x]]

\* f(x) for x in the domain of f, else g(x)
Override(f, g) ==
    [x \in (DOMAIN f) \cup (DOMAIN g) |-> IF x \in DOMAIN f THEN f[x] ELSE g[x]]

\* Rational numbers <<numerator, denominator>>, denominator > 0
Rat(n) == <<n, 1>>
RatEq(a, b)   == a[1] * b[2] = b[1] * a[2]
RatLess(a, b) == a[1] * b[2] < b[1] * a[2]
RatAdd(a, b)  == <<a[1] * b[2] + b[1] * a[2], a[2] * b[2]>>
RatSub(a, b)  == <<a[1] * b[2] - b[1] * a[2], a[2] * b[2]>>
RatMul(a, b)  == <<a[1] * b[1], a[2] * b[2]>>
RatDiv(a, b)  == <<a[1] * b[2], a[2] * b[1]>>
RatMax(a, b)  == IF RatLess(a, b) THEN b ELSE a

Abs(n) == IF n < 0 THEN -n ELSE n

Digit(n) == CASE n = 0 -> "0" [] n = 1 -> "1" [] n = 2 -> "2"
              [] n = 3 -> "3" [] OTHER -> "9"

-----------------------------------------------------------------------------
(* Host nodes *)

\* Maya condition node: firstTerm <operation> secondTerm
\* 0 Equal, 1 Not Equal, 2 Greater Than, 3 Greater or Equal,
\* 4 Less Than, 5 Less or Equal
ConditionTest(operation, firstTerm, secondTerm) ==
    CASE operation = 0 -> firstTerm = secondTerm
      [] operation = 1 -> firstTerm # secondTerm
      [] operation = 2 -> firstTerm > secondTerm
      [] operation = 3 -> firstTerm >= secondTerm
      [] operation = 4 -> firstTerm < secondTerm
      [] operation = 5 -> firstTerm <= secondTerm
      [] OTHER -> FALSE

-----------------------------------------------------------------------------
(* IKFollowSystem.py *)

IkCtrl   == <<"i","k">>
IkGrp    == <<"g","r","p">>
CogCtrl  == <<"c","o","g">>
CogCtrl2 == <<"C","o","g">>      \* a second control; Maya names are case-sensitive
TrnCtrl  == <<"t","r","n">>
WldCtrl  == <<"w","l","d">>

IkTargetNames == {CogCtrl, CogCtrl2, TrnCtrl, WldCtrl}
IkAllNames    == {IkCtrl, IkGrp} \cup IkTargetNames

FollowTargetPlug == <<IkCtrl, "FollowTarget">>
FollowTargetValues == 0..3      \* enum None:COG:Transform:World

NoConn == [kind |-> "none"]

\* cmds.ls(obj, sn=True): the names matching obj, as the host prints them
LsShortNames(obj) == IF obj \in ikObjs THEN <<obj>> ELSE <<>>

\* _safe_short_name
SafeShortName(obj) ==
    LET sn == LsShortNames(obj) IN IF sn # <<>> THEN sn[1] ELSE obj

\* cmds.parentConstraint(t1, t2, t3, grp): one parentConstraint node per
\* constrained object; a target not yet on it is appended with its own weight
\* attribute, which starts unconnected
HostAddTargets(pc, args) ==
    LET RECURSIVE Add(_, _)
        Add(p, k) ==
            IF k > Len(args) THEN p
            ELSE IF \E j \in DOMAIN p.targets : p.targets[j] = args[k]
                 THEN Add(p, k + 1)
                 ELSE Add([p EXCEPT !.targets = Append(@, args[k]),
                                    !.weightIn = Append(@, NoConn)], k + 1)
    IN Add([pc EXCEPT !.exists = TRUE], 1)

\* cmds.parentConstraint(pcon, q=True, wal=True): "<target>W<index>"
WeightAliasList(pc) ==
    [k \in DOMAIN pc.targets |-> pc.targets[k] \o <<"W", Digit(k - 1)>>]

\* cmds.parentConstraint(pcon, q=True, tl=True)
TargetList(pc) == pc.targets

\* enum_map
EnumMap(key) == CASE key = "COG" -> 1 [] key = "TRANSFORM" -> 2 [] key = "WORLD" -> 3

\* EnumValFor without the branch for the world control
EnumValFor_NoWorld(k, weight, targets, cog_ctrl, trans_ctrl, world_ctrl) ==
    LET cog_sn     == Lower(cog_ctrl)
        trans_sn   == Lower(trans_ctrl)
        target_sn  == Lower(targets[k])
    IN  CASE target_sn = cog_sn   -> 1
          [] target_sn = trans_sn -> 2
          [] OTHER -> 0

\* The enum value a weight is given (0 stands for Python's None: no match).
\* k is the 1-based position of the weight (idx + 1).
EnumValFor(k, weight, targets, cog_ctrl, trans_ctrl, world_ctrl) ==
    LET cog_sn     == Lower(SafeShortName(cog_ctrl))
        trans_sn   == Lower(SafeShortName(trans_ctrl))
        world_sn   == Lower(SafeShortName(world_ctrl))
        target_obj == IF targets # <<>> /\ k <= Len(targets) THEN targets[k] ELSE None
        label      == SplitFirst(weight, "W")
    IN  IF target_obj # None
        THEN LET target_sn == Lower(SafeShortName(target_obj))
             IN CASE target_sn = cog_sn   -> EnumMap("COG")
                  [] target_sn = trans_sn -> EnumMap("TRANSFORM")
                  [] target_sn = world_sn -> EnumMap("WORLD")
                  [] OTHER -> 0
        ELSE CASE Contains(cog_sn, Lower(label))   -> EnumMap("COG")
               [] Contains(trans_sn, Lower(label)) -> EnumMap("TRANSFORM")
               [] Contains(world_sn, Lower(label)) -> EnumMap("WORLD")
               [] OTHER -> 0

\* The condition node of one weight: operation 0 (Equal), secondTerm = enum_val,
\* colorIfTrueR 1, colorIfFalseR 0, firstTerm <- ik_ctrl.FollowTarget
FollowCondition(ik_ctrl, enum_val) ==
    [operation |-> 0, secondTerm |-> enum_val,
     colorIfTrueR |-> 1, colorIfFalseR |-> 0,
     firstTermIn |-> <<ik_ctrl, "FollowTarget">>]

\* The chain connected to one weight: cond.outColorR -> mdl.input1,
\* mdl.input2 = 1, mdl.output -> pcon.<weight>
FollowChain(ik_ctrl, enum_val) ==
    [kind |-> "mdl", input2 |-> 1, input1 |-> FollowCondition(ik_ctrl, enum_val)]

\* for idx, weight in enumerate(weights): ...   st = [weightIn, cond, mdl]
RECURSIVE FollowLoop(_, _, _, _, _, _, _, _)
FollowLoop(k, weights, targets, st, ik_ctrl, cog_ctrl, trans_ctrl, world_ctrl) ==
    IF k > Len(weights) THEN st
    ELSE LET enum_val == EnumValFor(k, weights[k], targets,
                                    cog_ctrl, trans_ctrl, world_ctrl)
             next == IF enum_val = 0
                     THEN st        \* continue
                     ELSE [weightIn |-> [st.weightIn EXCEPT
                                            ![k] = FollowChain(ik_ctrl, enum_val)],
                           cond |-> st.cond + 1,
                           mdl  |-> st.mdl + 1]
         IN FollowLoop(k + 1, weights, targets, next,
                       ik_ctrl, cog_ctrl, trans_ctrl, world_ctrl)

\* IkValidationError without the test of the IK control's parent
IkValidationError_NoGroupTest(ik_ctrl, cog_ctrl, trans_ctrl, world_ctrl) ==
    IF \E obj \in {ik_ctrl, cog_ctrl, trans_ctrl, world_ctrl} : obj \notin ikObjs
    THEN "does not exist"
    ELSE ""

\* The validation at the top of addIKFollowSystem: the message of the
\* cmds.error raised, or "" when none is
IkValidationError(ik_ctrl, cog_ctrl, trans_ctrl, world_ctrl) ==
    IF \E obj \in {ik_ctrl, cog_ctrl, trans_ctrl, world_ctrl} : obj \notin ikObjs
    THEN "does not exist"
    ELSE IF ~ikGrouped THEN "must be grouped" ELSE ""

NoIkArgs == [ik |-> None, cog |-> None, trans |-> None, world |-> None]

addIKFollowSystem(ik_ctrl, cog_ctrl, trans_ctrl, world_ctrl) ==
    LET err == IkValidationError(ik_ctrl, cog_ctrl, trans_ctrl, world_ctrl)
        args == [ik |-> ik_ctrl, cog |-> cog_ctrl,
                 trans |-> trans_ctrl, world |-> world_ctrl]
    IN  IF err # ""
        THEN /\ ikLast' = [result |-> err, args |-> NoIkArgs]
             /\ UNCHANGED <<ikObjs, ikGrouped, ikAttr, pcon, ikNodes, ikCalls>>
        ELSE /\ ikCalls < MaxIKCalls
             /\ LET pc      == HostAddTargets(pcon, <<cog_ctrl, trans_ctrl, world_ctrl>>)
                    weights == WeightAliasList(pc)
                    targets == TargetList(pc)
                    st      == FollowLoop(1, weights, targets,
                                          [weightIn |-> pc.weightIn,
                                           cond |-> ikNodes.cond, mdl |-> ikNodes.mdl],
                                          ik_ctrl, cog_ctrl, trans_ctrl, world_ctrl)
                IN /\ ikAttr' = IF ikAttr.exists THEN ikAttr
                                ELSE [exists |-> TRUE, value |-> 0]
                   /\ pcon' = [pc EXCEPT !.weightIn = st.weightIn]
                   /\ ikNodes' = [cond |-> st.cond, mdl |-> st.mdl]
             /\ ikCalls' = ikCalls + 1
             /\ ikLast' = [result |-> "ok", args |-> args]
             /\ UNCHANGED <<ikObjs, ikGrouped>>

\* The animator sets ik_ctrl.FollowTarget in the channel box
SetFollowTarget(v) ==
    /\ ikAttr.exists
    /\ ikAttr' = [ikAttr EXCEPT !.value = v]
    /\ UNCHANGED <<ikObjs, ikGrouped, pcon, ikNodes, ikCalls, ikLast>>

\* ---- evaluation of the network by the host

PlugValueIK(plug) == IF plug = FollowTargetPlug THEN ikAttr.value ELSE 0

ConditionOutR(cond) ==
    IF ConditionTest(cond.operation, PlugValueIK(cond.firstTermIn), cond.secondTerm)
    THEN cond.colorIfTrueR ELSE cond.colorIfFalseR

\* multDoubleLinear: output = input1 * input2
MdlOutput(mdl) == ConditionOutR(mdl.input1) * mdl.input2

\* The value of the k-th weight attribute of the constraint; an unconnected
\* weight keeps the host's default for a new target, 1
WeightValue(k) ==
    IF pcon.weightIn[k].kind = "mdl" THEN MdlOutput(pcon.weightIn[k]) ELSE 1

\* The weight the constraint gives target `obj` (obj is a target)
TargetWeight(obj) ==
    WeightValue(CHOOSE k \in DOMAIN pcon.targets : pcon.targets[k] = obj)

\* ---- claims on addIKFollowSystem

IkLastOk == ikLast.result = "ok"

IkLastDistinct ==
    Cardinality({ikLast.args.ik, ikLast.args.cog,
                 ikLast.args.trans, ikLast.args.world}) = 4

\* C1 (as claimed): after addIKFollowSystem succeeds with four distinct existing
\* controls, for every value v of FollowTarget the COG target's weight is 1 iff
\* v = 1, the Transform target's iff v = 2, the World target's iff v = 3, so at
\* most one of the three is non-zero and with v = 0 all three are 0.
C1_ExclusiveWeights ==
    (IkLastOk /\ IkLastDistinct) =>
        /\ (TargetWeight(ikLast.args.cog) = 1)   <=> (ikAttr.value = 1)
        /\ (TargetWeight(ikLast.args.trans) = 1) <=> (ikAttr.value = 2)
        /\ (TargetWeight(ikLast.args.world) = 1) <=> (ikAttr.value = 3)
        /\ Cardinality({o \in {ikLast.args.cog, ikLast.args.trans, ikLast.args.world} :
                           TargetWeight(o) # 0}) <= 1

\* C2: when addIKFollowSystem returns, every weight attribute the parent
\* constraint lists is driven by a multDoubleLinear whose input1 is a condition
\* whose firstTerm reads ik_ctrl.FollowTarget; no weight is left undriven.
C2_EveryWeightDriven ==
    IkLastOk =>
        \A k \in DOMAIN pcon.weightIn :
            /\ pcon.weightIn[k].kind = "mdl"
            /\ pcon.weightIn[k].input1.firstTermIn = <<ikLast.args.ik, "FollowTarget">>

C2_Witness ==
    /\ IkLastOk
    /\ Len(pcon.targets) = 3
    /\ ikNodes.mdl = 3
    /\ ikAttr.value = 3

IkErrors == {"does not exist", "must be grouped"}

IkSceneUntouched ==
    /\ ~ikAttr.exists
    /\ ~pcon.exists
    /\ ikNodes = [cond |-> 0, mdl |-> 0]

\* C14: addIKFollowSystem validates before it mutates: a call that goes
\* through had four existing controls and a grouped IK control; a call that
\* raises leaves the attribute, the constraint and the node counts as they
\* were, so that as long as no call went through there is no FollowTarget
\* attribute, no constraint and no condition / multDoubleLinear node.
C14_ValidatesFirst ==
    /\ [](IkLastOk => /\ ikGrouped
                      /\ {ikLast.args.ik, ikLast.args.cog,
                          ikLast.args.trans, ikLast.args.world} \subseteq ikObjs)
    /\ []((ikLast.result \in IkErrors /\ ikCalls = 0) => IkSceneUntouched)
    /\ [][(ikLast' # ikLast /\ ikLast'.result \in IkErrors) =>
             UNCHANGED <<ikObjs, ikGrouped, ikAttr, pcon, ikNodes>>]_vars

\* a call has raised on a scene no call has gone through on
C14_Witness ==
    /\ ikLast.result \in IkErrors
    /\ ikCalls = 0
    /\ IkSceneUntouched

InitIK ==
    /\ \E missing \in {{}} \cup {{n} : n \in IkAllNames} : ikObjs = IkAllNames \ missing
    /\ ikGrouped \in BOOLEAN
    /\ ikGrouped => IkGrp \in ikObjs
    /\ ikAttr = [exists |-> FALSE, value |-> 0]
    /\ pcon = [exists |-> FALSE, targets |-> <<>>, weightIn |-> <<>>]
    /\ ikNodes = [cond |-> 0, mdl |-> 0]
    /\ ikCalls = 0
    /\ ikLast = [result |-> "", args |-> NoIkArgs]

IdleIK ==
    /\ ikObjs = {}
    /\ ikGrouped = FALSE
    /\ ikAttr = [exists |-> FALSE, value |-> 0]
    /\ pcon = [exists |-> FALSE, targets |-> <<>>, weightIn |-> <<>>]
    /\ ikNodes = [cond |-> 0, mdl |-> 0]
    /\ ikCalls = 0
    /\ ikLast = [result |-> "", args |-> NoIkArgs]

IdleProp ==
    /\ propObjs = {}
    /\ propParentOf = <<>>
    /\ propPos = <<>>
    /\ followHand = [exists |-> FALSE, value |-> 0]
    /\ bufCon = [exists |-> FALSE, targets |-> <<>>, weightIn |-> <<>>,
                 weightSet |-> <<>>, enable |-> 1]
    /\ propConds = 0
    /\ scriptJobs = <<>>
    /\ propCalls = 0
    /\ propLast = [result |-> "", left |-> None, right |-> None]

NoStretchCall ==
    [op |-> "", ret |-> "", created |-> <<>>, cmds |-> 0, prints |-> 0,
     sel |-> <<>>, ik_handle |-> None, start_jnt |-> None, mid_jnt |-> None,
     end_jnt |-> None, name |-> None, clamp_min |-> TRUE, add_attr |-> TRUE]

IdleStretch ==
    /\ inMaya = TRUE
    /\ segLen = <<1, 1>>
    /\ stObjs = {}
    /\ stType = <<>>
    /\ stParent = <<>>
    /\ stAttrs = {}
    /\ stVal = <<>>
    /\ stMeta = <<>>
    /\ stConn = {}
    /\ stPointCons = <<>>
    /\ stDist = <<>>
    /\ stCalls = 0
    /\ stLast = NoStretchCall

NoAnimRun ==
    [op |-> "", sel |-> <<>>, selAfter |-> <<>>, copies |-> <<>>, pastes |-> <<>>,
     printed |-> <<>>, raised |-> ""]

IdleAnim ==
    /\ anObjs = {}
    /\ anParent = <<>>
    /\ anSel = <<>>
    /\ anKeys = <<>>
    /\ anClip = 0
    /\ anStrict = TRUE
    /\ anLast = NoAnimRun

NoCtRun ==
    [op |-> "", sel |-> <<>>, attempts |-> <<>>, warnings |-> 0, deleted |-> {},
     changed |-> FALSE]

IdleCon ==
    /\ ctSel = <<>>
    /\ ctLocked = {}
    /\ ctCons = {}
    /\ ctCalls = 0
    /\ ctLast = NoCtRun

NoAttach == [ret |-> "", created |-> <<>>, warnings |-> 0, maintain_offset |-> TRUE]

IdleSpline ==
    /\ joint_chain = <<>>
    /\ spCurve = "ok"
    /\ spans = 1
    /\ spRefused = {}
    /\ spPoci = <<>>
    /\ spCtrls = <<>>
    /\ spGrps = <<>>
    /\ spParentGrps = 0
    /\ spCons = {}
    /\ spCalls = 0
    /\ spLast = NoAttach

StartIK == InitIK /\ IdleProp /\ IdleStretch /\ IdleAnim /\ IdleCon /\ IdleSpline

NextIK ==
    \/ \E c, t, w \in IkTargetNames :
          addIKFollowSystem(IkCtrl, c, t, w) /\ UNCHANGED <<propVars, stVars, anVars, ctVars, spVars>>
    \/ \E v \in FollowTargetValues : SetFollowTarget(v) /\ UNCHANGED <<propVars, stVars, anVars, ctVars, spVars>>

SpecIK == StartIK /\ [][NextIK]_vars

-----------------------------------------------------------------------------
(* PropFollowTool.py *)

PropCtrl == <<"p","r","o","p">>
PropRig  == <<"r","i","g">>          \* the transform the prop may be parented under
HandL    == <<"h","L">>
HandR    == <<"h","R">>

PropHands    == {HandL, HandR}
PropAllNames == {PropCtrl, PropRig} \cup PropHands
Positions    == 0..MaxPos
FollowHandValues == 0..2        \* enum Off:Left:Right

\* f"{prop_group}_followBuffer"
FollowBufferName(prop_group) ==
    prop_group \o <<"_","f","o","l","l","o","w","B","u","f","f","e","r">>

\* cmds.parentConstraint(target, constrained): one parentConstraint node per
\* constrained object; a target not yet on it is appended as target[n] with
\* targetWeight 1, unconnected
HostAddTarget(pc, target) ==
    IF \E j \in DOMAIN pc.targets : pc.targets[j] = target
    THEN [pc EXCEPT !.exists = TRUE]
    ELSE [pc EXCEPT !.exists = TRUE,
                    !.targets = Append(@, target),
                    !.weightIn = Append(@, NoConn),
                    !.weightSet = Append(@, 1)]

\* The condition node the loop at lines 68-77 configures: operation 2,
\* firstTerm = term, colorIfTrueR 1, colorIfFalseR 0,
\* secondTerm <- prop_group.followHand
PropCondition(prop_group, term) ==
    [kind |-> "cond", operation |-> 2, firstTerm |-> term,
     colorIfTrueR |-> 1, colorIfFalseR |-> 0,
     secondTermIn |-> <<prop_group, "followHand">>]

PropValidationError(prop_group, left_target, right_target) ==
    IF \E obj \in {prop_group, left_target, right_target} : obj \notin propObjs
    THEN "does not exist" ELSE ""

setup_prop_follow(prop_group, left_target, right_target) ==
    LET err        == PropValidationError(prop_group, left_target, right_target)
        buffer_grp == FollowBufferName(prop_group)
        isNew      == buffer_grp \notin propObjs
        \* buffer group: created at the prop's transform, put under the prop's
        \* parent, and the prop under it
        objs1      == propObjs \cup {buffer_grp}
        pos1       == IF isNew
                      THEN Override((buffer_grp :> propPos[prop_group]), propPos)
                      ELSE propPos
        par1       == IF isNew
                      THEN Override((buffer_grp :> propParentOf[prop_group])
                                        @@ (prop_group :> buffer_grp), propParentOf)
                      ELSE propParentOf
        \* enum attribute
        attr1      == IF followHand.exists THEN followHand
                      ELSE [exists |-> TRUE, value |-> 0]
        \* constraints on the buffer: constr_left and constr_right name the
        \* buffer's parentConstraint node
        con1       == HostAddTarget(HostAddTarget(bufCon, left_target), right_target)
        \* setAttr on target[0].targetWeight fails when the plug has an
        \* incoming connection
        connected  == con1.weightIn[1].kind # "none"
        con2       == [con1 EXCEPT !.weightSet[1] = 1, !.enable = 0]
        cond_left  == PropCondition(prop_group, 1)
        cond_right == PropCondition(prop_group, 2)
        \* connectAttr(cond_left.outColorR, constr_left.target[0].targetWeight)
        con3       == [con2 EXCEPT !.weightIn[1] = cond_left]
        \* connectAttr(cond_right.outColorR, constr_right.target[0].targetWeight,
        \* force=True)
        con4       == [con3 EXCEPT !.weightIn[1] = cond_right]
        job        == [attr |-> <<prop_group, "followHand">>, buffer |-> buffer_grp,
                       left |-> left_target, right |-> right_target]
    IN  IF err # ""
        THEN /\ propLast' = [result |-> err, left |-> None, right |-> None]
             /\ UNCHANGED <<propObjs, propParentOf, propPos, followHand, bufCon,
                            propConds, scriptJobs, propCalls>>
        ELSE /\ propCalls < MaxPropCalls
             /\ propCalls' = propCalls + 1
             /\ propObjs' = objs1
             /\ propPos' = pos1
             /\ propParentOf' = par1
             /\ followHand' = attr1
             /\ IF connected
                THEN /\ bufCon' = con1
                     /\ propLast' = [result |-> "setAttr: connected", left |-> None,
                                     right |-> None]
                     /\ UNCHANGED <<propConds, scriptJobs>>
                ELSE /\ bufCon' = con4
                     /\ propConds' = propConds + 2
                     /\ scriptJobs' = Append(scriptJobs, job)
                     /\ propLast' = [result |-> "ok", left |-> left_target,
                                     right |-> right_target]

\* cmds.matchTransform(node, target, pos=True, rot=True): the node goes to the
\* target's world transform and takes its children along
MatchTransform(pos, node, target) ==
    [n \in DOMAIN pos |->
        IF n = node THEN pos[target]
        ELSE IF propParentOf[n] = node THEN pos[n] + (pos[target] - pos[node])
        ELSE pos[n]]

\* snap_on_switch with the right branch matching the left target
RECURSIVE RunSnapJobs_RightIsLeft(_, _, _)
RunSnapJobs_RightIsLeft(k, val, pos) ==
    IF k > Len(scriptJobs) THEN pos
    ELSE LET job == scriptJobs[k]
             next == IF val = 1 THEN MatchTransform(pos, job.buffer, job.left)
                     ELSE IF val = 2 THEN MatchTransform(pos, job.buffer, job.left)
                     ELSE pos
         IN RunSnapJobs_RightIsLeft(k + 1, val, next)

\* snap_on_switch of each registered job, in registration order
RECURSIVE RunSnapJobs(_, _, _)
RunSnapJobs(k, val, pos) ==
    IF k > Len(scriptJobs) THEN pos
    ELSE LET job == scriptJobs[k]
             next == IF val = 1 THEN MatchTransform(pos, job.buffer, job.left)
                     ELSE IF val = 2 THEN MatchTransform(pos, job.buffer, job.right)
                     ELSE pos
         IN RunSnapJobs(k + 1, val, next)

\* The animator changes prop.followHand; the attributeChange jobs run
SetFollowHand(v) ==
    /\ followHand.exists
    /\ v # followHand.value
    /\ followHand' = [followHand EXCEPT !.value = v]
    /\ propPos' = RunSnapJobs(1, v, propPos)
    /\ UNCHANGED <<propObjs, propParentOf, bufCon, propConds, scriptJobs,
                   propCalls, propLast>>

\* The animator moves a hand target
MoveHand(hand, p) ==
    /\ hand \in propObjs
    /\ propPos[hand] # p
    /\ propPos' = [propPos EXCEPT ![hand] = p]
    /\ UNCHANGED <<propObjs, propParentOf, followHand, bufCon, propConds,
                   scriptJobs, propCalls, propLast>>

\* ---- evaluation of the network by the host

PlugValueProp(plug) == IF plug = <<PropCtrl, "followHand">> THEN followHand.value ELSE 0

PropConditionOutR(cond) ==
    IF ConditionTest(cond.operation, cond.firstTerm, PlugValueProp(cond.secondTermIn))
    THEN cond.colorIfTrueR ELSE cond.colorIfFalseR

\* target[k-1].targetWeight of the buffer's constraint
PropTargetWeightAt(k) ==
    IF bufCon.weightIn[k].kind = "cond"
    THEN PropConditionOutR(bufCon.weightIn[k]) ELSE bufCon.weightSet[k]

\* The weight with which the buffer's constraint follows `target`
PropTargetWeight(target) ==
    PropTargetWeightAt(CHOOSE k \in DOMAIN bufCon.targets : bufCon.targets[k] = target)

\* ---- claims on setup_prop_follow

\* C3 (as claimed): after setup_prop_follow(prop, left, right) the left
\* target's weight is 1 exactly when followHand = 1 (Left), the right target's
\* weight is 1 exactly when followHand = 2 (Right), and with followHand = 0
\* (Off) both weights are 0.
C3_WeightsFollowEnum ==
    (propLast.result = "ok" /\ propLast.left # propLast.right) =>
        /\ (PropTargetWeight(propLast.left) = 1) <=> (followHand.value = 1)
        /\ (PropTargetWeight(propLast.right) = 1) <=> (followHand.value = 2)
        /\ (followHand.value = 0) =>
               /\ PropTargetWeight(propLast.left) = 0
               /\ PropTargetWeight(propLast.right) = 0

\* C3, read on the plug the script connects last (target[0].targetWeight of
\* the node it calls constr_right): 1 exactly when followHand = 2
C3_ConnectedPlugFollowsEnum ==
    (propLast.result = "ok") =>
        ((PropTargetWeightAt(1) = 1) <=> (followHand.value = 2))

PropBuffer == FollowBufferName(PropCtrl)

\* The job a setup_prop_follow(PropCtrl, left, right) registers
SnapJob(left, right) ==
    [attr |-> <<PropCtrl, "followHand">>, buffer |-> PropBuffer,
     left |-> left, right |-> right]

\* C15: once setup_prop_follow has registered its job, every change of
\* prop.followHand runs it: the buffer group goes to the left target's
\* transform when the new value is 1, to the right target's when it is 2, and
\* stays where it is when it is 0. Each call that returns registers exactly
\* one job, for its own targets, and no step removes a job.
C15_SnapOnSwitch ==
    [][/\ (scriptJobs # <<>> /\ followHand'.value # followHand.value) =>
             LET job == scriptJobs[Len(scriptJobs)] IN
             /\ followHand'.value = 1 => propPos'[job.buffer] = propPos[job.left]
             /\ followHand'.value = 2 => propPos'[job.buffer] = propPos[job.right]
             /\ followHand'.value = 0 => propPos'[job.buffer] = propPos[job.buffer]
       /\ (propCalls' = propCalls + 1 /\ propLast'.result = "ok") =>
             scriptJobs' = Append(scriptJobs, SnapJob(propLast'.left, propLast'.right))
       /\ (propCalls' = propCalls + 1 /\ propLast'.result # "ok") =>
             scriptJobs' = scriptJobs
       /\ Len(scriptJobs') >= Len(scriptJobs)
       /\ SubSeq(scriptJobs', 1, Len(scriptJobs)) = scriptJobs]_vars

\* the job has moved the buffer to the right hand, away from the left one
C15_Witness ==
    /\ Len(scriptJobs) = 1
    /\ followHand.value = 2
    /\ scriptJobs[1].left # scriptJobs[1].right
    /\ propPos[PropBuffer] = propPos[scriptJobs[1].right]
    /\ propPos[PropBuffer] # propPos[scriptJobs[1].left]

\* C16: setup_prop_follow inserts the buffer group at most once: a call that
\* finds no '<prop>_followBuffer' creates it under the prop's parent (or the
\* world) and puts the prop under it; a call that finds one leaves the
\* hierarchy alone. At any time there is at most one buffer, it sits between
\* the prop and the prop's original parent, and the followHand attribute,
\* once there, keeps its value across a call.
C16_BufferOnce ==
    /\ [](PropBuffer \in propObjs =>
             /\ propParentOf[PropCtrl] = PropBuffer
             /\ propParentOf[PropBuffer] \in {None, PropRig}
             /\ propObjs \ PropAllNames = {PropBuffer}
             /\ followHand.exists)
    /\ [](propObjs \ PropAllNames \subseteq {PropBuffer})
    /\ [][(propCalls' = propCalls + 1) =>
             /\ PropBuffer \in propObjs'
             /\ IF PropBuffer \in propObjs
                THEN propParentOf' = propParentOf /\ propObjs' = propObjs
                ELSE /\ propParentOf'[PropBuffer] = propParentOf[PropCtrl]
                     /\ propParentOf'[PropCtrl] = PropBuffer
                     /\ \A n \in propObjs \ {PropCtrl} :
                           propParentOf'[n] = propParentOf[n]
             /\ followHand'.exists
             /\ followHand.exists => followHand' = followHand]_vars

\* a second call on a prop whose buffer sits under the rig group, with the
\* attribute away from its default
C16_Witness ==
    /\ propCalls = 2
    /\ propParentOf[PropCtrl] = PropBuffer
    /\ propParentOf[PropBuffer] = PropRig
    /\ followHand.value = 2

InitProp ==
    /\ \E missing \in {{}} \cup {{n} : n \in PropHands} :
          propObjs = (PropAllNames \ missing)
    /\ \E grouped \in BOOLEAN :
          propParentOf = [n \in propObjs |->
                             IF n = PropCtrl /\ grouped THEN PropRig ELSE None]
    /\ propPos \in [propObjs -> Positions]
    /\ propPos[PropRig] = 0
    /\ followHand = [exists |-> FALSE, value |-> 0]
    /\ bufCon = [exists |-> FALSE, targets |-> <<>>, weightIn |-> <<>>,
                 weightSet |-> <<>>, enable |-> 1]
    /\ propConds = 0
    /\ scriptJobs = <<>>
    /\ propCalls = 0
    /\ propLast = [result |-> "", left |-> None, right |-> None]

StartProp == InitProp /\ IdleIK /\ IdleStretch /\ IdleAnim /\ IdleCon /\ IdleSpline

NextProp ==
    \/ \E l, r \in PropHands :
          setup_prop_follow(PropCtrl, l, r) /\ UNCHANGED <<ikVars, stVars, anVars, ctVars, spVars>>
    \/ \E v \in FollowHandValues : SetFollowHand(v) /\ UNCHANGED <<ikVars, stVars, anVars, ctVars, spVars>>
    \/ \E h \in PropHands, p \in Positions : MoveHand(h, p) /\ UNCHANGED <<ikVars, stVars, anVars, ctVars, spVars>>

SpecProp == StartProp /\ [][NextProp]_vars

-----------------------------------------------------------------------------
(* StretchSystemTool.py *)

\* Names are sequences of pieces here; f"{a}_b" is a \o <<"_b">>
J1     == <<"joint1">>
J2     == <<"joint2">>
J3     == <<"joint3">>
IkH    == <<"ikHandle1">>
IkHGrp == <<"ikGrp">>          \* the group the IK handle may be parented under
SysName == <<"armSys">>        \* a system name typed by the user

StretchJoints == {J1, J2, J3}
StretchNames  == {None, SysName}

\* The selections create_from_selection is run on
StretchSelections ==
    { <<>>, <<J1, J2, J3>>, <<J1, J2, J3, IkH>>, <<IkH, J1, J2, J3>>,
      <<J1, J2, IkH, J3>> }

\* The scene as the commands of one call see it, with what the call issued:
\* cmds counts the host commands, prints the dry-run messages
SceneNow ==
    [objs |-> stObjs, type |-> stType, parent |-> stParent, attrs |-> stAttrs,
     val |-> stVal, meta |-> stMeta, conn |-> stConn, pointCons |-> stPointCons,
     dist |-> stDist, cmds |-> 0, prints |-> 0, created |-> <<>>]

\* a host command (cmds.<anything>) is issued
HostCmd(sc) == [sc EXCEPT !.cmds = @ + 1]

\* print(...)
PyPrint(sc) == [sc EXCEPT !.prints = @ + 1]

\* _maya with the dry-run test dropped: the command is always issued
MayaHelper_AlwaysRuns(sc) == HostCmd(sc)

\* _maya(cmd, ...): run the command inside Maya, print it otherwise
MayaHelper(sc) == IF inMaya THEN HostCmd(sc) ELSE PyPrint(sc)

\* World position of a joint in the rest pose, along the chain
RestPos(n) ==
    CASE n = J1 -> 0
      [] n = J2 -> segLen[1]
      [] OTHER -> segLen[1] + segLen[2]      \* joint3 and the IK handle on it

\* _segment_length(a, b): math.dist of the world positions; 1.0 in a dry run
SegmentLength(a, b) == IF inMaya THEN Abs(RestPos(a) - RestPos(b)) ELSE 1

\* cmds.spaceLocator / cmds.createNode, guarded by `if not cmds.objExists(n)`
CreateIfMissing(sc, n, ty) ==
    IF n \in sc.objs THEN HostCmd(sc)
    ELSE [HostCmd(HostCmd(sc)) EXCEPT
             !.objs = @ \cup {n},
             !.type = Override((n :> ty), @),
             !.parent = IF ty = "locator" THEN Override((n :> None), @) ELSE @]

\* cmds.connectAttr(src, dst, force=True)
ConnectAttr(sc, src, dst) ==
    [HostCmd(sc) EXCEPT !.conn = {c \in @ : c[2] # dst} \cup {<<src, dst>>}]

\* cmds.setAttr(plug, value)
SetAttr(sc, plug, v) == [HostCmd(sc) EXCEPT !.val = Override((plug :> v), @)]

\* cmds.addAttr(node, longName=attr, ...)
AddAttr(sc, node, attr) == [HostCmd(sc) EXCEPT !.attrs = @ \cup {<<node, attr>>}]

\* cmds.pointConstraint(jnt, loc, maintainOffset=False)
PointConstraint(sc, jnt, loc) ==
    [HostCmd(sc) EXCEPT
        !.pointCons = Override((loc :> (IF loc \in DOMAIN @ THEN @[loc] ELSE {})
                                          \cup {jnt}), @)]

\* created[key] = value
Created(sc, key, value) == [sc EXCEPT !.created = Override((key :> value), @)]

\* lines 62-69: the transform the stretch attribute goes on
IkTransform(sc, ik_handle) ==
    IF inMaya /\ ik_handle \in sc.objs /\ sc.parent[ik_handle] # None
    THEN sc.parent[ik_handle] ELSE ik_handle

\* lines 73-87
StretchLocators(sc, name, start_jnt, end_jnt) ==
    LET loc_start == name \o <<"_loc_start_loc">>
        loc_end   == name \o <<"_loc_end_loc">>
        s1 == IF inMaya
              THEN PointConstraint(
                     PointConstraint(
                       CreateIfMissing(CreateIfMissing(sc, loc_start, "locator"),
                                       loc_end, "locator"),
                       start_jnt, loc_start),
                     end_jnt, loc_end)
              ELSE MayaHelper(MayaHelper(sc))
    IN Created(s1, "locators", <<loc_start, loc_end>>)

\* lines 89-101; the new node measures the distance between the two joints
StretchDistance(sc, name, start_jnt, end_jnt) ==
    LET dist_node == name \o <<"_distance">>
        loc_start == name \o <<"_loc_start_loc">>
        loc_end   == name \o <<"_loc_end_loc">>
        s1 == IF inMaya
              THEN LET c == CreateIfMissing(sc, dist_node, "distanceBetween")
                       m == [c EXCEPT !.dist =
                               IF dist_node \in DOMAIN @ THEN @
                               ELSE Override((dist_node :>
                                       Abs(RestPos(start_jnt) - RestPos(end_jnt))), @)]
                   IN HostCmd(   \* getAttr(dist_node.distance)
                        ConnectAttr(
                          ConnectAttr(m, <<loc_start, "worldMatrix[0]">>,
                                         <<dist_node, "inMatrix1">>),
                          <<loc_end, "worldMatrix[0]">>, <<dist_node, "inMatrix2">>))
              ELSE MayaHelper(sc)
    IN Created(s1, "distance", dist_node)

\* lines 116-126
StretchDivide(sc, name, rest_length) ==
    LET md_node   == name \o <<"_md_divide">>
        dist_node == name \o <<"_distance">>
        s1 == IF inMaya
              THEN SetAttr(
                     ConnectAttr(
                       SetAttr(CreateIfMissing(sc, md_node, "multiplyDivide"),
                               <<md_node, "operation">>, Rat(2)),
                       <<dist_node, "distance">>, <<md_node, "input1X">>),
                     <<md_node, "input2X">>, Rat(rest_length))
              ELSE MayaHelper(sc)
    IN Created(s1, "md_divide", md_node)

\* lines 128-144
StretchCondition(sc, name) ==
    LET cond_node == name \o <<"_cond">>
        md_node   == name \o <<"_md_divide">>
        s1 == IF inMaya
              THEN SetAttr(
                     ConnectAttr(
                       SetAttr(
                         SetAttr(
                           ConnectAttr(CreateIfMissing(sc, cond_node, "condition"),
                                       <<md_node, "outputX">>, <<cond_node, "firstTerm">>),
                           <<cond_node, "secondTerm">>, Rat(1)),
                         <<cond_node, "operation">>, Rat(2)),
                       <<md_node, "outputX">>, <<cond_node, "colorIfTrueR">>),
                     <<cond_node, "colorIfFalseR">>, Rat(1))
              ELSE MayaHelper(sc)
    IN Created(s1, "condition", cond_node)

\* lines 146-156
StretchBlend(sc, name) ==
    LET blend_node == name \o <<"_blend">>
        out_attr   == <<name \o <<"_cond">>, "outColorR">>
        s1 == IF inMaya
              THEN ConnectAttr(
                     SetAttr(CreateIfMissing(sc, blend_node, "blendColors"),
                             <<blend_node, "color1R">>, Rat(1)),
                     out_attr, <<blend_node, "color2R">>)
              ELSE MayaHelper(sc)
    IN Created(s1, "blend", blend_node)

\* lines 158-169
StretchAttr(sc, name, ik_transform, add_attr) ==
    LET blend_node == name \o <<"_blend">>
        s1 == IF inMaya /\ add_attr
              THEN LET a == IF <<ik_transform, "stretch">> \in sc.attrs
                            THEN HostCmd(sc)
                            ELSE HostCmd(AddAttr(HostCmd(sc), ik_transform, "stretch"))
                   IN ConnectAttr(a, <<ik_transform, "stretch">>,
                                     <<blend_node, "blender">>)
              ELSE IF ~inMaya THEN PyPrint(sc) ELSE sc
    IN Created(s1, "stretch_attr", ik_transform \o <<".stretch">>)

\* lines 171-180
StretchDrive(sc, name, start_jnt, mid_jnt) ==
    LET blend_node == name \o <<"_blend">>
        s1 == IF inMaya
              THEN ConnectAttr(
                     ConnectAttr(sc, <<blend_node, "outputR">>, <<start_jnt, "scaleX">>),
                     <<blend_node, "outputR">>, <<mid_jnt, "scaleX">>)
              ELSE MayaHelper(MayaHelper(sc))
    IN Created(s1, "driven_joints", <<start_jnt, mid_jnt>>)

\* lines 182-191
StretchMeta(sc, name, start_jnt) ==
    IF inMaya
    THEN LET a == IF <<start_jnt, "stretchSystem">> \in sc.attrs
                  THEN HostCmd(sc)
                  ELSE AddAttr(HostCmd(sc), start_jnt, "stretchSystem")
         IN [HostCmd(a) EXCEPT !.meta = Override((start_jnt :> name), @)]
    ELSE sc

\* The body of create_stretch_ik_chain, block after block
StretchBody(sc, ik_handle, start_jnt, mid_jnt, end_jnt, name, clamp_min, add_attr) ==
    LET ik_transform == IkTransform(sc, ik_handle)
        s0 == IF inMaya THEN HostCmd(HostCmd(sc)) ELSE sc   \* objExists, listRelatives
        s1 == StretchLocators(s0, name, start_jnt, end_jnt)
        s2 == StretchDistance(s1, name, start_jnt, end_jnt)
        rest_length == SegmentLength(start_jnt, mid_jnt) + SegmentLength(mid_jnt, end_jnt)
        s3 == StretchDivide(s2, name, rest_length)
        s4 == StretchCondition(s3, name)
        s5 == StretchBlend(s4, name)
        s6 == StretchAttr(s5, name, ik_transform, add_attr)
        s7 == StretchDrive(s6, name, start_jnt, mid_jnt)
    IN StretchMeta(s7, name, start_jnt)

\* name = f"{start_jnt}_stretch" when None
StretchName(name, start_jnt) == IF name = None THEN start_jnt \o <<"_stretch">> ELSE name

\* The scene after a call, and the record of the call
StretchCommit(sc, call) ==
    /\ stObjs' = sc.objs
    /\ stType' = sc.type
    /\ stParent' = sc.parent
    /\ stAttrs' = sc.attrs
    /\ stVal' = sc.val
    /\ stMeta' = sc.meta
    /\ stConn' = sc.conn
    /\ stPointCons' = sc.pointCons
    /\ stDist' = sc.dist
    /\ stLast' = [call EXCEPT !.created = sc.created, !.cmds = sc.cmds,
                              !.prints = sc.prints]
    /\ UNCHANGED <<inMaya, segLen>>

StretchRun(op, sel, ik_handle, start_jnt, mid_jnt, end_jnt, name, clamp_min, add_attr) ==
    LET resolved == StretchName(name, start_jnt)
        sc == StretchBody(SceneNow, ik_handle, start_jnt, mid_jnt, end_jnt,
                          resolved, clamp_min, add_attr)
    IN /\ stCalls < MaxStretchCalls
       /\ stCalls' = stCalls + 1
       /\ StretchCommit(sc, [NoStretchCall EXCEPT
              !.op = op, !.ret = "dict", !.sel = sel, !.ik_handle = ik_handle,
              !.start_jnt = start_jnt, !.mid_jnt = mid_jnt, !.end_jnt = end_jnt,
              !.name = resolved, !.clamp_min = clamp_min, !.add_attr = add_attr])

\* StretchSystemUI 'Create From Fields' (and a direct call from a script)
create_stretch_ik_chain(name, clamp_min, add_attr) ==
    StretchRun("create_stretch_ik_chain", <<>>, IkH, J1, J2, J3,
               name, clamp_min, add_attr)

create_from_selection(sel, name) ==
    IF ~inMaya
    THEN /\ StretchCommit(PyPrint(SceneNow),
                [NoStretchCall EXCEPT !.op = "create_from_selection", !.ret = "None"])
         /\ UNCHANGED stCalls
    ELSE IF Len(sel) < 4
    THEN /\ StretchCommit(HostCmd(SceneNow),
                [NoStretchCall EXCEPT !.op = "create_from_selection",
                                      !.ret = "RuntimeError", !.sel = sel])
         /\ UNCHANGED stCalls
    ELSE StretchRun("create_from_selection", sel, sel[4], sel[1], sel[2], sel[3],
                    name, TRUE, TRUE)

\* The animator poses the chain: the distance a distanceBetween node measures
Pose(node, d) ==
    /\ node \in DOMAIN stDist
    /\ stDist[node] # d
    /\ stDist' = [stDist EXCEPT ![node] = d]
    /\ UNCHANGED <<inMaya, segLen, stObjs, stType, stParent, stAttrs, stVal, stMeta,
                   stConn, stPointCons, stCalls, stLast>>

StretchAttrValues == {<<0, 1>>, <<1, 2>>, <<1, 1>>}

\* The animator sets the stretch attribute (range 0..1)
SetStretch(node, v) ==
    /\ <<node, "stretch">> \in stAttrs
    /\ stVal' = Override((<<node, "stretch">> :> v), stVal)
    /\ stVal' # stVal
    /\ UNCHANGED <<inMaya, segLen, stObjs, stType, stParent, stAttrs, stMeta,
                   stConn, stPointCons, stDist, stCalls, stLast>>

\* ---- evaluation of the network by the host

\* The value of an attribute nothing has set
DefaultVal(plug) ==
    CASE plug[2] = "scaleX"        -> Rat(1)
      [] plug[2] = "stretch"       -> Rat(1)       \* defaultValue=1.0
      [] plug[2] = "blender"       -> <<1, 2>>
      [] plug[2] = "color1R"       -> Rat(1)
      [] plug[2] = "colorIfFalseR" -> Rat(1)
      [] plug[2] = "input2X"       -> Rat(1)
      [] plug[2] = "operation"     ->
            IF stType[plug[1]] = "multiplyDivide" THEN Rat(1) ELSE Rat(0)
      [] OTHER -> Rat(0)

RECURSIVE PlugVal(_)
\* The output of a node
NodeOut(src) ==
    LET n  == src[1]
        ty == IF n \in DOMAIN stType THEN stType[n] ELSE ""
    IN CASE ty = "distanceBetween" /\ src[2] = "distance" -> Rat(stDist[n])
         [] ty = "multiplyDivide" /\ src[2] = "outputX" ->
              LET op == PlugVal(<<n, "operation">>)[1]
                  a  == PlugVal(<<n, "input1X">>)
                  b  == PlugVal(<<n, "input2X">>)
              IN CASE op = 1 -> RatMul(a, b)
                   [] op = 2 -> RatDiv(a, b)
                   [] OTHER -> a
         [] ty = "condition" /\ src[2] = "outColorR" ->
              LET a == PlugVal(<<n, "firstTerm">>)
                  b == PlugVal(<<n, "secondTerm">>)
              IN IF ConditionTest(PlugVal(<<n, "operation">>)[1],
                                  a[1] * b[2], b[1] * a[2])
                 THEN PlugVal(<<n, "colorIfTrueR">>)
                 ELSE PlugVal(<<n, "colorIfFalseR">>)
         [] ty = "blendColors" /\ src[2] = "outputR" ->
              \* output = blender * color1 + (1 - blender) * color2
              LET b == PlugVal(<<n, "blender">>)
              IN RatAdd(RatMul(b, PlugVal(<<n, "color1R">>)),
                        RatMul(RatSub(Rat(1), b), PlugVal(<<n, "color2R">>)))
         [] OTHER -> IF src \in DOMAIN stVal THEN stVal[src] ELSE DefaultVal(src)

\* The value of an attribute: what is connected to it, else what was set
PlugVal(plug) ==
    IF \E c \in stConn : c[2] = plug
    THEN NodeOut((CHOOSE c \in stConn : c[2] = plug)[1])
    ELSE IF plug \in DOMAIN stVal THEN stVal[plug] ELSE DefaultVal(plug)

\* ---- claims on create_stretch_ik_chain / create_from_selection

\* the last call built (or planned) a stretch system
LastBuilt == stLast.ret = "dict"

LastNode(suffix) == stLast.name \o <<suffix>>

\* currentDistance / restLength of the last system
LastRatio ==
    <<stDist[LastNode("_distance")],
      SegmentLength(stLast.start_jnt, stLast.mid_jnt)
          + SegmentLength(stLast.mid_jnt, stLast.end_jnt)>>

\* the factor the last system sends towards scaleX: what enters the blend node
LastFactor == PlugVal(<<LastNode("_blend"), "color2R">>)

\* C4 (as claimed): with clamp_min=True the factor sent towards scaleX is
\* max(currentDistance / restLength, 1) and never below 1; with clamp_min=False
\* it is currentDistance / restLength, unclamped.
C4_ClampOptional ==
    (inMaya /\ LastBuilt) =>
        IF stLast.clamp_min
        THEN /\ RatEq(LastFactor, RatMax(LastRatio, Rat(1)))
             /\ ~RatLess(LastFactor, Rat(1))
        ELSE RatEq(LastFactor, LastRatio)

\* C4, the part the code keeps: the factor is max(ratio, 1) whatever clamp_min is
C4_AlwaysClamped ==
    (inMaya /\ LastBuilt) => RatEq(LastFactor, RatMax(LastRatio, Rat(1)))

\* C5 (as claimed): with stretch = 1 the scaleX of the start and mid joints is
\* the condition node's factor, with stretch = 0 it is 1.
C5_StretchToggles ==
    (inMaya /\ LastBuilt /\ stLast.add_attr) =>
        LET stretch == PlugVal(<<IkTransform(SceneNow, stLast.ik_handle), "stretch">>)
            factor  == NodeOut(<<LastNode("_cond"), "outColorR">>)
            sx1     == PlugVal(<<stLast.start_jnt, "scaleX">>)
            sx2     == PlugVal(<<stLast.mid_jnt, "scaleX">>)
        IN /\ RatEq(stretch, Rat(1)) => (RatEq(sx1, factor) /\ RatEq(sx2, factor))
           /\ RatEq(stretch, Rat(0)) => (RatEq(sx1, Rat(1)) /\ RatEq(sx2, Rat(1)))

\* C6 (as claimed): on the three supplied joints the only change is the
\* incoming connection on scaleX of start_jnt and mid_jnt; no attribute is
\* added to a joint, none is set, end_jnt gets no incoming connection.
C6_JointsUntouched ==
    (inMaya /\ LastBuilt /\ stCalls = 1) =>
        LET js == {stLast.start_jnt, stLast.mid_jnt, stLast.end_jnt} IN
        /\ {p \in stAttrs : p[1] \in js} = {}
        /\ {c[2] : c \in {x \in stConn : x[2][1] \in js}}
              = {<<stLast.start_jnt, "scaleX">>, <<stLast.mid_jnt, "scaleX">>}
        /\ \A p \in DOMAIN stVal : p[1] \notin js
        /\ \A j \in DOMAIN stMeta : j \notin js

\* C7 (as claimed): with 4 objects selected create_from_selection passes the
\* IK handle of the selection as ik_handle and the remaining joints, in
\* order, as start/mid/end; with fewer it raises RuntimeError and changes
\* nothing.
C7_FindsIkHandle ==
    (inMaya /\ stLast.op = "create_from_selection") =>
        IF Len(stLast.sel) >= 4
        THEN LET NotHandle(x) == x # stLast.ik_handle IN
             /\ LastBuilt
             /\ stType[stLast.ik_handle] = "ikHandle"
             /\ <<stLast.start_jnt, stLast.mid_jnt, stLast.end_jnt>>
                   = SelectSeq(stLast.sel, NotHandle)
        ELSE /\ stLast.ret = "RuntimeError"
             /\ stCalls = 0 => (stConn = {} /\ stAttrs = {} /\ DOMAIN stDist = {})

StretchKeys ==
    {"locators", "distance", "md_divide", "condition", "blend",
     "stretch_attr", "driven_joints"}

\* C8: in a dry run (IN_MAYA False) create_stretch_ik_chain issues no scene
\* command, prints its plan and returns a dict with exactly the keys it
\* returns inside Maya; create_from_selection prints one message and returns
\* None.
C8_DryRun ==
    /\ LastBuilt => DOMAIN stLast.created = StretchKeys
    /\ ~inMaya =>
          /\ stLast.cmds = 0
          /\ stObjs = {} /\ stConn = {} /\ stAttrs = {}
          /\ DOMAIN stVal = {} /\ DOMAIN stMeta = {}
          /\ (stLast.op = "create_stretch_ik_chain") =>
                (LastBuilt /\ stLast.prints = 9)
          /\ (stLast.op = "create_from_selection") =>
                (stLast.ret = "None" /\ stLast.prints = 1
                    /\ DOMAIN stLast.created = {})

C8_Witness ==
    /\ ~inMaya
    /\ stLast.op = "create_stretch_ik_chain"
    /\ LastBuilt
    /\ stLast.prints = 9

InitStretch ==
    /\ inMaya \in BOOLEAN
    /\ segLen \in (1..MaxSegLen) \X (1..MaxSegLen)
    /\ stObjs \in IF inMaya THEN {StretchJoints \cup {IkH}, StretchJoints \cup {IkH, IkHGrp}}
                  ELSE {{}}
    /\ stType = [n \in stObjs |-> IF n \in StretchJoints THEN "joint"
                                  ELSE IF n = IkH THEN "ikHandle" ELSE "transform"]
    /\ stParent = [n \in stObjs |->
                     CASE n = J2 -> J1
                       [] n = J3 -> J2
                       [] n = IkH /\ IkHGrp \in stObjs -> IkHGrp
                       [] OTHER -> None]
    /\ stAttrs = {}
    /\ stVal = <<>>
    /\ stMeta = <<>>
    /\ stConn = {}
    /\ stPointCons = <<>>
    /\ stDist = <<>>
    /\ stCalls = 0
    /\ stLast = NoStretchCall

StartStretch == InitStretch /\ IdleIK /\ IdleProp /\ IdleAnim /\ IdleCon /\ IdleSpline

NextStretch ==
    \/ \E n \in StretchNames, c, a \in BOOLEAN :
          create_stretch_ik_chain(n, c, a) /\ UNCHANGED <<ikVars, propVars, anVars, ctVars, spVars>>
    \/ \E sel \in StretchSelections, n \in StretchNames :
          create_from_selection(sel, n) /\ UNCHANGED <<ikVars, propVars, anVars, ctVars, spVars>>
    \/ \E node \in DOMAIN stDist, d \in 0..MaxDist :
          Pose(node, d) /\ UNCHANGED <<ikVars, propVars, anVars, ctVars, spVars>>
    \/ \E node \in stObjs, v \in StretchAttrValues :
          SetStretch(node, v) /\ UNCHANGED <<ikVars, propVars, anVars, ctVars, spVars>>

SpecStretch == StartStretch /\ [][NextStretch]_vars

-----------------------------------------------------------------------------
(* kfAnimTransfer.py *)

\* Two referenced rigs (namespaces A and B), each a root with one child, and
\* a root without namespace
RootA  == <<"A", ":", "r">>
ChildA == <<"A", ":", "c">>
RootB  == <<"B", ":", "r">>
ChildB == <<"B", ":", "c">>
RootW  == <<"r">>

AnimNames  == {RootA, ChildA, RootB, ChildB, RootW}
AnimPicked == {RootA, RootB, RootW}        \* what the animator selects

\* The selections: up to MaxSel distinct objects, in order
AnimSelections ==
    {q \in UNION {[1..n -> AnimPicked] : n \in 0..MaxSel} :
        \A i, j \in DOMAIN q : i # j => q[i] # q[j]}

SeqRange(q) == {q[k] : k \in DOMAIN q}

\* cmds.select(obj, toggle=True) that deselects nothing
SelectToggle_KeepsAll(sel, obj) ==
    IF obj \in SeqRange(sel) THEN sel ELSE Append(sel, obj)

\* cmds.select(obj, toggle=True): a selected object is deselected, another is added
SelectToggle(sel, obj) ==
    IF obj \in SeqRange(sel)
    THEN LET Other(x) == x # obj IN SelectSeq(sel, Other)
    ELSE Append(sel, obj)

\* cmds.select(hierarchy=True): the selected objects, each followed by its
\* descendants
RECURSIVE SelectHierarchy(_)
SelectHierarchy(sel) ==
    IF sel = <<>> THEN <<>>
    ELSE LET kids == {o \in anObjs : anParent[o] = Head(sel)}
             RECURSIVE Below(_)
             Below(set) ==
                 IF set = {} THEN <<>>
                 ELSE LET o == CHOOSE x \in set : TRUE
                      IN SelectHierarchy(<<o>>) \o Below(set \ {o})
         IN <<Head(sel)>> \o Below(kids) \o SelectHierarchy(Tail(sel))

\* cmds.pasteKey(obj, option='replaceCompletely', ...) on the run so far:
\* the clipboard replaces the keys of obj; an empty clipboard is an error or
\* pastes nothing, as the host has it
PasteKey(run, obj) ==
    IF run.clip = 0
    THEN IF anStrict THEN [run EXCEPT !.raised = "RuntimeError"]
         ELSE [run EXCEPT !.pastes = Append(@, obj)]
    ELSE [run EXCEPT !.keys[obj] = run.clip, !.pastes = Append(@, obj)]

\* cmds.copyKey(obj)
CopyKey(run, obj) ==
    [run EXCEPT !.clip = run.keys[obj], !.copies = Append(@, obj)]

\* The state a handler works on
AnimRun(op) ==
    [op |-> op, sel |-> anSel, selNow |-> anSel, keys |-> anKeys, clip |-> anClip,
     copies |-> <<>>, pastes |-> <<>>, printed |-> <<>>, raised |-> ""]

AnimCommit(run) ==
    /\ anSel' = run.selNow
    /\ anKeys' = run.keys
    /\ anClip' = run.clip
    /\ anLast' = [op |-> run.op, sel |-> run.sel, selAfter |-> run.selNow,
                  copies |-> run.copies, pastes |-> run.pastes,
                  printed |-> run.printed, raised |-> run.raised]
    /\ UNCHANGED <<anObjs, anParent, anStrict>>

FailMessage == [msg |-> "FAIL: Please select at least 2 Objects", k |-> 0, n |-> 0]
SuccessMessage(k, n) ==
    [msg |-> "SUCCESS: Hierarchy Anim Transfer Complete", k |-> k, n |-> n]

\* for obj in pasteSel: cmds.pasteKey(obj, ...)
RECURSIVE ObjPasteLoop(_, _, _)
ObjPasteLoop(run, pasteSel, k) ==
    IF k > Len(pasteSel) \/ run.raised # "" THEN run
    ELSE ObjPasteLoop(PasteKey(run, pasteSel[k]), pasteSel, k + 1)

kfAT_Obj ==
    LET run == AnimRun("kfAT_Obj")
        sel == anSel
    IN  IF Len(sel) > 1
        THEN LET copySel  == <<sel[1]>>                       \* select(sel[0]); ls
                 pasteSel == SelectToggle(sel, copySel[1])    \* select(sel); toggle; ls
                 r1 == CopyKey([run EXCEPT !.selNow = pasteSel], copySel[1])
             IN AnimCommit(ObjPasteLoop(r1, pasteSel, 1))
        ELSE AnimCommit([run EXCEPT !.printed = Append(@, FailMessage)])

\* for initObj in allInit: ...   goalObj is the loop's variable of that name:
\* a name, or <<name>> wrapped once more when the body has rebound it to a list
RECURSIVE HierInitLoop(_, _, _, _, _, _)
HierInitLoop(run, goalObj, allInit, k, nameSpaceInit, nameSpaceGoal) ==
    IF k > Len(allInit) \/ run.raised # "" THEN [run |-> run, goalObj |-> goalObj]
    ELSE LET initObj  == allInit[k]
             goalTest == PyReplace(initObj, nameSpaceInit, nameSpaceGoal)
         IN IF goalTest \in anObjs
            THEN LET anyDups == <<goalTest>>                  \* cmds.ls(goalTest)
                     r1      == [run EXCEPT !.selNow = <<anyDups[1]>>]
                     rebound == [list |-> TRUE, items |-> r1.selNow]
                     anyKeys == run.keys[initObj]
                     r2      == IF anyKeys # 0
                                THEN PasteKey(CopyKey(r1, initObj), rebound.items[1])
                                ELSE r1
                 IN HierInitLoop(r2, rebound, allInit, k + 1,
                                 nameSpaceInit, nameSpaceGoal)
            ELSE HierInitLoop(run, goalObj, allInit, k + 1,
                              nameSpaceInit, nameSpaceGoal)

\* goalHierObj.index(goalObj) + 1, or 0 for the ValueError of a value that
\* is not in the list (a list is never an element of a list of names)
IndexOf(goalHierObj, goalObj) ==
    IF ~goalObj.list /\ \E k \in DOMAIN goalHierObj : goalHierObj[k] = goalObj.items[1]
    THEN CHOOSE k \in DOMAIN goalHierObj :
            /\ goalHierObj[k] = goalObj.items[1]
            /\ \A j \in 1..(k - 1) : goalHierObj[j] # goalObj.items[1]
    ELSE 0

\* for goalObj in goalHierObj: ...
RECURSIVE HierGoalLoop(_, _, _, _, _)
HierGoalLoop(run, initHierObj, goalHierObj, g, nameSpaceInit) ==
    IF g > Len(goalHierObj) \/ run.raised # "" THEN run
    ELSE LET goalObj       == [list |-> FALSE, items |-> <<goalHierObj[g]>>]
             justName      == SplitLast(goalHierObj[g], ":")
             nameSpaceGoal == PyReplace(goalHierObj[g], justName, <<>>)
             allInit       == SelectHierarchy(initHierObj)
             r1            == [run EXCEPT !.selNow = <<>>]     \* select(clear=True)
             done          == HierInitLoop(r1, goalObj, allInit, 1,
                                           nameSpaceInit, nameSpaceGoal)
             idx           == IndexOf(goalHierObj, done.goalObj)
             r2            == IF done.run.raised # "" THEN done.run
                              ELSE IF idx = 0
                              THEN [done.run EXCEPT !.raised = "ValueError"]
                              ELSE [done.run EXCEPT !.printed =
                                       Append(@, SuccessMessage(idx, Len(goalHierObj)))]
         IN HierGoalLoop(r2, initHierObj, goalHierObj, g + 1, nameSpaceInit)

kfAT_Hier ==
    LET run == AnimRun("kfAT_Hier")
        sel == anSel
    IN  IF Len(sel) > 1
        THEN LET initHierObj   == <<sel[1]>>
                 goalHierObj   == SelectToggle(sel, initHierObj[1])
                 justName      == SplitLast(initHierObj[1], ":")
                 nameSpaceInit == PyReplace(initHierObj[1], justName, <<>>)
             IN AnimCommit(HierGoalLoop([run EXCEPT !.selNow = goalHierObj],
                                        initHierObj, goalHierObj, 1, nameSpaceInit))
        ELSE AnimCommit([run EXCEPT !.printed = Append(@, FailMessage)])

\* The animator selects objects
SelectObjects(sel) ==
    /\ anSel # sel
    /\ anSel' = sel
    /\ UNCHANGED <<anObjs, anParent, anKeys, anClip, anStrict, anLast>>

\* ---- claims on kfAT_Hier and kfAT_Obj

\* C9 (as claimed): kfAT_Hier with n+1 >= 2 objects selected handles every goal
\* hierarchy: it prints 'SUCCESS ... k/n' for k = 1..n, in order, and
\* completes without raising.
C9_EveryGoalHandled ==
    (anLast.op = "kfAT_Hier" /\ Len(anLast.sel) >= 2) =>
        /\ anLast.raised = ""
        /\ anLast.printed = [k \in 1..(Len(anLast.sel) - 1) |->
                                SuccessMessage(k, Len(anLast.sel) - 1)]

OwnKeys(o) ==
    CASE o = RootA -> 1 [] o = ChildA -> 2 [] o = RootB -> 3
      [] o = ChildB -> 4 [] OTHER -> 5

InitAnim ==
    /\ anObjs \in {AnimNames, AnimNames \ {ChildB}}
    /\ anParent = [o \in anObjs |->
                     CASE o = ChildA -> RootA [] o = ChildB -> RootB [] OTHER -> None]
    /\ anSel = <<>>
    /\ \E keyed \in SUBSET anObjs :
          anKeys = [o \in anObjs |-> IF o \in keyed THEN OwnKeys(o) ELSE 0]
    /\ anClip = 0
    /\ anStrict \in BOOLEAN
    /\ anLast = NoAnimRun

StartAnim == InitAnim /\ IdleIK /\ IdleProp /\ IdleStretch /\ IdleCon /\ IdleSpline

NextAnim ==
    \/ \E sel \in AnimSelections :
          SelectObjects(sel) /\ UNCHANGED <<ikVars, propVars, stVars, ctVars, spVars>>
    \/ kfAT_Obj /\ UNCHANGED <<ikVars, propVars, stVars, ctVars, spVars>>
    \/ kfAT_Hier /\ UNCHANGED <<ikVars, propVars, stVars, ctVars, spVars>>

SpecAnim == StartAnim /\ [][NextAnim]_vars

-----------------------------------------------------------------------------
(* RigRefineTools/ConstrainTool.py *)

Cube1 == "pCube1"
Cube2 == "pCube2"
Cube3 == "pCube3"
CtNames == {Cube1, Cube2, Cube3}

ConstraintTypes == {"parentConstraint", "orientConstraint", "scaleConstraint"}

\* The channels of the constrained transform a constraint of a type drives
ChannelsOf(type) ==
    CASE type = "parentConstraint" -> {"translate", "rotate"}
      [] type = "orientConstraint" -> {"rotate"}
      [] OTHER                     -> {"scale"}

\* The selections: up to MaxSel distinct transforms, in order
CtSelections ==
    {q \in UNION {[1..n -> CtNames] : n \in 0..MaxSel} :
        \A i, j \in DOMAIN q : i # j => q[i] # q[j]}

\* cmds.<type>(parent, child): the host refuses when the child's channels are
\* locked or already driven by a constraint of another type; otherwise the
\* parent becomes a target of the child's constraint node of that type, which
\* is created when the child has none
HostConstrainFails(cons, type, child) ==
    \/ child \in ctLocked
    \/ \E c \in cons : /\ c.on = child
                       /\ c.type # type
                       /\ ChannelsOf(c.type) \cap ChannelsOf(type) # {}

HostConstrain(cons, type, parent, child) ==
    IF \E c \in cons : c.on = child /\ c.type = type
    THEN {IF c.on = child /\ c.type = type
          THEN [c EXCEPT !.targets = @ \cup {parent}] ELSE c : c \in cons}
    ELSE cons \cup {[type |-> type, on |-> child, targets |-> {parent}]}

\* The state a button's handler works on
CtRun(op) ==
    [op |-> op, sel |-> ctSel, cons |-> ctCons, attempts |-> <<>>, warnings |-> 0,
     deleted |-> {}]

CtCommit(run) ==
    /\ ctCons' = run.cons
    /\ ctLast' = [op |-> run.op, sel |-> run.sel, attempts |-> run.attempts,
                  warnings |-> run.warnings, deleted |-> run.deleted,
                  changed |-> (run.cons # ctCons)]
    /\ UNCHANGED <<ctSel, ctLocked>>

\* _get_parent_and_children: [parent, children] and the run with its warning
GetParentAndChildren(run) ==
    IF Len(run.sel) < 2
    THEN [parent |-> None, children |-> <<>>,
          run |-> [run EXCEPT !.warnings = @ + 1]]
    ELSE [parent |-> <<run.sel[1]>>, children |-> Tail(run.sel), run |-> run]

\* for child in children: try: cmds.<type>(parent, child) except: warning --
\* cut short at the first failure
RECURSIVE ConstrainLoop_StopsOnFailure(_, _, _, _, _)
ConstrainLoop_StopsOnFailure(run, type, parent, children, k) ==
    IF k > Len(children) THEN run
    ELSE LET child == children[k]
             fails == HostConstrainFails(run.cons, type, child)
             tried == Append(run.attempts,
                             [parent |-> parent, child |-> child, type |-> type,
                              ok |-> ~fails])
         IN IF fails
            THEN [run EXCEPT !.attempts = tried, !.warnings = @ + 1]
            ELSE ConstrainLoop_StopsOnFailure(
                     [run EXCEPT !.attempts = tried,
                                 !.cons = HostConstrain(run.cons, type, parent, child)],
                     type, parent, children, k + 1)

\* for child in children: try: cmds.<type>(parent, child) except: warning
RECURSIVE ConstrainLoop(_, _, _, _, _)
ConstrainLoop(run, type, parent, children, k) ==
    IF k > Len(children) THEN run
    ELSE LET child == children[k]
             fails == HostConstrainFails(run.cons, type, child)
             tried == Append(run.attempts,
                             [parent |-> parent, child |-> child, type |-> type,
                              ok |-> ~fails])
         IN ConstrainLoop(
                IF fails
                THEN [run EXCEPT !.attempts = tried, !.warnings = @ + 1]
                ELSE [run EXCEPT !.attempts = tried,
                                 !.cons = HostConstrain(run.cons, type, parent, child)],
                type, parent, children, k + 1)

\* The body the three create handlers share, for the constraint type of each
CreateConstraint(op, type) ==
    LET got == GetParentAndChildren(CtRun(op))
    IN  /\ ctCalls < MaxCtCalls
        /\ ctCalls' = ctCalls + 1
        /\ IF got.parent = None \/ got.children = <<>>
           THEN CtCommit(got.run)
           ELSE CtCommit(ConstrainLoop(got.run, type, got.parent[1], got.children, 1))

createParentConstraint == CreateConstraint("createParentConstraint", "parentConstraint")
createOrientConstraint == CreateConstraint("createOrientConstraint", "orientConstraint")
createScaleConstraint  == CreateConstraint("createScaleConstraint", "scaleConstraint")

\* cmds.listRelatives(child, type=t): the constraint nodes of that type
\* parented under the child, i.e. the ones that constrain it
ListRelatives(cons, child, type) == {c \in cons : c.type = type /\ c.on = child}

\* cmds.listConnections(child, type=t): the constraint nodes of that type with
\* a connection to or from the child: the ones that constrain it and the ones
\* it is a target of
ListConnections(cons, child, type) ==
    {c \in cons : c.type = type /\ (c.on = child \/ child \in c.targets)}

\* for child in children: collect, delete
RECURSIVE ClearLoop(_, _, _)
ClearLoop(run, children, k) ==
    IF k > Len(children) THEN run
    ELSE LET child == children[k]
             cons  == UNION {ListRelatives(run.cons, child, t) : t \in ConstraintTypes}
                      \cup
                      UNION {ListConnections(run.cons, child, t) : t \in ConstraintTypes}
         IN ClearLoop([run EXCEPT !.cons = @ \ cons, !.deleted = @ \cup cons],
                      children, k + 1)

clearConstraintsOnChildren ==
    LET got == GetParentAndChildren(CtRun("clearConstraintsOnChildren"))
    IN  /\ IF got.children = <<>>
           THEN CtCommit(got.run)
           ELSE CtCommit(ClearLoop(got.run, got.children, 1))
        /\ UNCHANGED ctCalls

\* The rigger selects transforms
SelectCt(sel) ==
    /\ ctSel # sel
    /\ ctSel' = sel
    /\ UNCHANGED <<ctLocked, ctCons, ctCalls, ctLast>>

\* ---- claims on the Constrain Tool

CtCreateOps == {"createParentConstraint", "createOrientConstraint", "createScaleConstraint"}

CtTypeOf(op) ==
    CASE op = "createParentConstraint" -> "parentConstraint"
      [] op = "createOrientConstraint" -> "orientConstraint"
      [] OTHER                         -> "scaleConstraint"

\* C11: a create handler with at least 2 objects selected attempts a constraint
\* of its type from the first selected object to every other selected object,
\* in selection order, whatever fails on the way; it warns once per failed
\* attempt. With fewer than 2 selected it warns once, attempts nothing and
\* no constraint is created.
C11_EveryChildAttempted ==
    (ctLast.op \in CtCreateOps) =>
        IF Len(ctLast.sel) >= 2
        THEN /\ Len(ctLast.attempts) = Len(ctLast.sel) - 1
             /\ \A k \in DOMAIN ctLast.attempts :
                   /\ ctLast.attempts[k].parent = ctLast.sel[1]
                   /\ ctLast.attempts[k].child = ctLast.sel[k + 1]
                   /\ ctLast.attempts[k].type = CtTypeOf(ctLast.op)
             /\ ctLast.warnings =
                   Cardinality({k \in DOMAIN ctLast.attempts : ~ctLast.attempts[k].ok})
        ELSE /\ ctLast.attempts = <<>>
             /\ ctLast.warnings = 1
             /\ ~ctLast.changed

\* a first child that fails, a later one that is constrained
C11_Witness ==
    /\ ctLast.op \in CtCreateOps
    /\ Len(ctLast.sel) = 3
    /\ ~ctLast.attempts[1].ok
    /\ ctLast.attempts[2].ok
    /\ \E c \in ctCons : /\ c.on = ctLast.sel[3]
                         /\ c.type = CtTypeOf(ctLast.op)
                         /\ ctLast.sel[1] \in c.targets

\* C12 (as claimed): clearConstraintsOnChildren deletes the constraints that
\* constrain one of the selected children and nothing else.
C12_OnlyChildrensConstraints ==
    (ctLast.op = "clearConstraintsOnChildren" /\ Len(ctLast.sel) >= 2) =>
        /\ \A c \in ctLast.deleted : c.on \in SeqRange(Tail(ctLast.sel))
        /\ \A c \in ctCons : c.on \notin SeqRange(Tail(ctLast.sel))

\* C12 (as built): every constraint deleted constrains a selected child or has
\* a selected child among its targets.
C12_ConnectedConstraints ==
    (ctLast.op = "clearConstraintsOnChildren" /\ Len(ctLast.sel) >= 2) =>
        \A c \in ctLast.deleted :
            \/ c.on \in SeqRange(Tail(ctLast.sel))
            \/ c.targets \cap SeqRange(Tail(ctLast.sel)) # {}

InitCon ==
    /\ ctSel = <<>>
    /\ ctLocked \in {{}, {Cube2}}
    /\ ctCons = {}
    /\ ctCalls = 0
    /\ ctLast = NoCtRun

StartCon == InitCon /\ IdleIK /\ IdleProp /\ IdleStretch /\ IdleAnim /\ IdleSpline

NextCon ==
    \/ \E sel \in CtSelections :
          SelectCt(sel) /\ UNCHANGED <<ikVars, propVars, stVars, anVars, spVars>>
    \/ createParentConstraint /\ UNCHANGED <<ikVars, propVars, stVars, anVars, spVars>>
    \/ createOrientConstraint /\ UNCHANGED <<ikVars, propVars, stVars, anVars, spVars>>
    \/ createScaleConstraint /\ UNCHANGED <<ikVars, propVars, stVars, anVars, spVars>>
    \/ clearConstraintsOnChildren /\ UNCHANGED <<ikVars, propVars, stVars, anVars, spVars>>

SpecCon == StartCon /\ [][NextCon]_vars

-----------------------------------------------------------------------------
(* Rigging Tools/JoinCreationTools/SplineTool.py *)

\* Python floats, as far as this arithmetic needs them: a quotient is rounded
\* to the nearest multiple of 1/FloatScale; products with an integer are exact
FloatScale == 16

\* float(a) / float(b), in units of 1/FloatScale
FloatDiv(a, b) == (2 * a * FloatScale + b) \div (2 * b)

\* lines 100-101 with the chain's length in place of n - 1
ParamAt_OverN(idx, n) ==
    (IF n = 1 THEN 0 ELSE FloatDiv(idx, n)) * spans

\* lines 100-101: t = 0.0 if n == 1 else float(idx) / float(n - 1); t * spans
ParamAt(idx, n) ==
    (IF n = 1 THEN 0 ELSE FloatDiv(idx, n - 1)) * spans

\* lines 128-137: the constraints the joint ends up with, and whether the
\* warning is issued.  The host refuses the parentConstraint on the joints of
\* spRefused; the point + orient fallback then goes through
ConstrainJoint(j, ctrl, mo) ==
    IF j \in spRefused
    THEN {[type |-> "pointConstraint", on |-> j, target |-> ctrl, mo |-> mo],
          [type |-> "orientConstraint", on |-> j, target |-> ctrl, mo |-> mo]}
    ELSE {[type |-> "parentConstraint", on |-> j, target |-> ctrl, mo |-> mo]}

\* for idx, j in enumerate(joint_chain): ...   (idx counts from 0)
RECURSIVE AttachLoop(_, _, _)
AttachLoop(sc, idx, mo) ==
    LET n == Len(joint_chain) IN
    IF idx >= n THEN sc
    ELSE LET j     == joint_chain[idx + 1]
             param == ParamAt(idx, n)
             poci  == Len(sc.poci) + 1           \* createNode('pointOnCurveInfo')
             grp   == Len(sc.grps) + 1           \* create_ctrl: circle, group
             ctrl  == Len(sc.ctrls) + 1
         IN AttachLoop(
                [sc EXCEPT
                   !.poci = Append(@, [joint |-> j, idx |-> idx, inputCurve |-> "curve",
                                       parameter |-> param]),
                   !.ctrls = Append(@, [joint |-> j, grp |-> grp]),
                   !.grps = Append(@, [joint |-> j, parent |-> sc.parentGrp,
                                       translateFrom |-> poci]),
                   !.cons = @ \cup ConstrainJoint(j, ctrl, mo),
                   !.created = Append(@, [j |-> j, ctrl |-> ctrl, ctrl_grp |-> grp,
                                          poci |-> poci])],
                idx + 1, mo)

attach_ctrls_to_curve(maintain_offset) ==
    /\ spCalls < MaxAttachCalls
    /\ spCalls' = spCalls + 1
    /\ IF spCurve # "ok"
       THEN /\ spLast' = [NoAttach EXCEPT !.ret = "RuntimeError",
                                          !.maintain_offset = maintain_offset]
            /\ UNCHANGED <<spPoci, spCtrls, spGrps, spParentGrps, spCons>>
       ELSE LET sc0 == [poci |-> spPoci, ctrls |-> spCtrls, grps |-> spGrps,
                        cons |-> spCons, created |-> <<>>,
                        parentGrp |-> spParentGrps + 1]
                sc  == AttachLoop(sc0, 0, maintain_offset)
            IN /\ spParentGrps' = sc.parentGrp
               /\ spPoci' = sc.poci
               /\ spCtrls' = sc.ctrls
               /\ spGrps' = sc.grps
               /\ spCons' = sc.cons
               /\ spLast' = [NoAttach EXCEPT !.ret = "created", !.created = sc.created,
                                             !.maintain_offset = maintain_offset]
    /\ UNCHANGED <<joint_chain, spCurve, spans, spRefused>>

\* ---- claims on attach_ctrls_to_curve

\* C13: a call that returns has created one pointOnCurveInfo node, one control
\* and one control group per joint of the chain, in joint order; joint idx is
\* at parameter (idx / (n - 1)) * spans (0 when n = 1): the first at 0, the
\* last at spans, non-decreasing in idx and within [0, spans].
C13_NormalizedParameters ==
    (spLast.ret = "created") =>
        LET n == Len(joint_chain)
            made == spLast.created
        IN  /\ Len(made) = n
            /\ \A k \in 1..n :
                  /\ made[k].j = joint_chain[k]
                  /\ spPoci[made[k].poci].joint = joint_chain[k]
                  /\ spCtrls[made[k].ctrl].joint = joint_chain[k]
                  /\ spGrps[made[k].ctrl_grp].joint = joint_chain[k]
                  /\ spPoci[made[k].poci].parameter = ParamAt(k - 1, n)
                  /\ spPoci[made[k].poci].parameter >= 0
                  /\ spPoci[made[k].poci].parameter <= spans * FloatScale
            /\ \A k, l \in 1..n : k # l =>
                  /\ made[k].poci # made[l].poci
                  /\ made[k].ctrl # made[l].ctrl
                  /\ made[k].ctrl_grp # made[l].ctrl_grp
            /\ \A k \in 1..(n - 1) :
                  spPoci[made[k].poci].parameter <= spPoci[made[k + 1].poci].parameter
            /\ n >= 1 => spPoci[made[1].poci].parameter = 0
            /\ n >= 2 => spPoci[made[n].poci].parameter = spans * FloatScale
            /\ Len(spPoci) = spCalls * n
            /\ Len(spCtrls) = spCalls * n
            /\ Len(spGrps) = spCalls * n

\* a chain of three joints on a curve of two spans or more
C13_Witness ==
    /\ spLast.ret = "created"
    /\ Len(joint_chain) >= 3
    /\ spans >= 2
    /\ spPoci[spLast.created[2].poci].parameter > 0
    /\ spPoci[spLast.created[2].poci].parameter < spans * FloatScale

\* The k-th joint of the chain under the root, as get_joint_chain lists them
SplineJoint(k) == <<"spine", k, "_Jnt">>

InitSpline ==
    /\ \E n \in 0..MaxChain : joint_chain = [k \in 1..n |-> SplineJoint(k)]
    /\ spCurve \in {"ok", "missing", "noShape"}
    /\ spans \in 1..MaxSpans
    /\ spRefused \in SUBSET {joint_chain[k] : k \in DOMAIN joint_chain}
    /\ spPoci = <<>>
    /\ spCtrls = <<>>
    /\ spGrps = <<>>
    /\ spParentGrps = 0
    /\ spCons = {}
    /\ spCalls = 0
    /\ spLast = NoAttach

StartSpline == InitSpline /\ IdleIK /\ IdleProp /\ IdleStretch /\ IdleAnim /\ IdleCon

NextSpline ==
    \/ \E mo \in BOOLEAN :
          attach_ctrls_to_curve(mo) /\ UNCHANGED <<ikVars, propVars, stVars, anVars, ctVars>>

SpecSpline == StartSpline /\ [][NextSpline]_vars

=============================================================================
